---- MODULE Spec2Model ----
(***************************************************************************)
(* A model of src/index.ts (roxe): an object wrapped in a chain of         *)
(* Proxies whose `set` trap notifies, through one rxjs Subject per         *)
(* observed dotted path, every property that a write changes.              *)
(*                                                                         *)
(* Objects live in a heap (a sequence, the index is the identity).  A      *)
(* value is a primitive, a raw reference to a heap object, or a Proxy over *)
(* a heap object.  A Proxy carries the arguments that bindLast has bound   *)
(* behind the four arguments of the root `set` trap: they are the `args`   *)
(* that trap receives.  Property keys hold no "." so that a dotted path    *)
(* names one key sequence.                                                 *)
(***************************************************************************)
EXTENDS Integers, Sequences, FiniteSets, TLC

VARIABLES
    heap,            \* the objects of the program, by identity
    root,            \* the value the constructor returned (line 126)
    optHandlers,     \* which override hooks the caller passed (line 23)
    observedObjects, \* this[observedObjects]: path -> Subject (0: none)
    nSubjects,       \* Subjects created so far
    subscribers,     \* the subscriptions made on observe()'s results
    nextCalls,       \* path -> number of Subject.next calls made for it
    nOps,            \* operations performed so far
    lastOp           \* the operation that produced this state

vars == <<heap, root, optHandlers, observedObjects, nSubjects, subscribers,
          nextCalls, nOps, lastOp>>

(***************************************************************************)
(* Bounds of the model.                                                    *)
(***************************************************************************)
MaxOps == 3

(***************************************************************************)
(* Values and objects.                                                     *)
(***************************************************************************)
Prim(n) == [t |-> "prim", v |-> n]
Ref(i) == [t |-> "ref", id |-> i]
Prox(i, a) == [t |-> "proxy", id |-> i, args |-> a]
Undefined == [t |-> "undefined"]

Obj(ks, vs) == [isArray |-> FALSE, keys |-> ks, val |-> vs]
Arr(ks, vs) == [isArray |-> TRUE, keys |-> ks, val |-> vs]

\* typeof value === "object" (line 43): true of plain objects, arrays and
\* Proxies over either.
TypeofObject(v) == v.t \in {"ref", "proxy"}

\* typeof x === "object" && !Array.isArray(x) (lines 214, 241);
\* Array.isArray looks through a Proxy.
IsPlainObject(h, v) == TypeofObject(v) /\ ~h[v.id].isArray

IsArrayValue(h, v) == TypeofObject(v) /\ h[v.id].isArray

\* obj[prop] on a heap object.
Get(h, id, prop) ==
    IF prop \in DOMAIN h[id].val THEN h[id].val[prop] ELSE Undefined

\* obj[prop] = v on a heap object: a new key goes last in enumeration order.
Store(h, id, prop, v) ==
    IF prop \in DOMAIN h[id].val
    THEN [h EXCEPT ![id].val[prop] = v]
    ELSE [h EXCEPT ![id].keys = Append(@, prop),
                   ![id].val = (prop :> v) @@ @]

RECURSIVE WithoutKey(_, _)
WithoutKey(ks, prop) ==
    IF ks = <<>> THEN <<>>
    ELSE IF Head(ks) = prop THEN WithoutKey(Tail(ks), prop)
    ELSE <<Head(ks)>> \o WithoutKey(Tail(ks), prop)

\* delete obj[prop] on a heap object.
Remove(h, id, prop) ==
    [h EXCEPT ![id].keys = WithoutKey(@, prop),
              ![id].val = [k \in DOMAIN @ \ {prop} |-> @[k]]]

\* Array.prototype.join(".") (lines 101, 239).
RECURSIVE Join(_)
Join(s) ==
    IF Len(s) = 0 THEN ""
    ELSE IF Len(s) = 1 THEN s[1]
    ELSE s[1] \o "." \o Join(Tail(s))

\* bindLast (lines 260-262): fn already passes fnBound behind its caller's
\* arguments; the function returned passes boundArgs before them.
BindLast(fnBound, boundArgs) == boundArgs \o fnBound

(***************************************************************************)
(* Notification chains: ordered path -> value maps (JS objects keep the    *)
(* insertion order of their string keys).                                  *)
(***************************************************************************)
Entry(p, v) == [path |-> p, val |-> v]

\* chain[p] = v
ChainPut(chain, p, v) ==
    IF \E i \in 1..Len(chain) : chain[i].path = p
    THEN [i \in 1..Len(chain) |->
            IF chain[i].path = p THEN Entry(p, v) ELSE chain[i]]
    ELSE Append(chain, Entry(p, v))

\* Object.assign(chain, src)
RECURSIVE ObjectAssign(_, _)
ObjectAssign(chain, src) ==
    IF src = <<>> THEN chain
    ELSE ObjectAssign(ChainPut(chain, Head(src).path, Head(src).val), Tail(src))

RECURSIVE BuildNotificationChain(_, _, _)
RECURSIVE NotificationChainLoop(_, _, _, _, _)
\* the for-in loop of buildNotificationChain, from the i-th key on.
NotificationChainLoop(h, source, args, i, chain) ==
    IF i > Len(h[source.id].keys) THEN chain
    ELSE LET prop == h[source.id].keys[i]
             v == h[source.id].val[prop]
             c1 == ChainPut(chain, Join(args \o <<prop>>), v)
             c2 == IF IsPlainObject(h, v)
                   THEN ObjectAssign(c1,
                            BuildNotificationChain(h, v, args \o <<prop>>))
                   ELSE c1
         IN NotificationChainLoop(h, source, args, i + 1, c2)

\* a builder that forgets the keys leading to `source`
BuildNotificationChainNoPrefix(h, source, args) ==
    NotificationChainLoop(h, source, <<>>, 1, <<>>)

BuildNotificationChain(h, source, args) ==
    NotificationChainLoop(h, source, args, 1, <<>>)

(***************************************************************************)
(* The Proxy chain built at construction.                                  *)
(***************************************************************************)
EmptyMap == [k \in {} |-> Undefined]

RECURSIVE BuildInitialProxyChain(_, _, _, _)
RECURSIVE ProxyChainLoop(_, _, _, _, _, _, _)
\* the for-in loop of buildInitialProxyChain, from the i-th key on; `bound`
\* stands for `handlers`: the arguments its `set` passes to the root trap.
\* The result is the heap with the new chain objects and the Proxy returned.
ProxyChainLoop(h, sourceObject, bound, args, i, ks, vs) ==
    IF i > Len(h[sourceObject].keys)
    THEN [heap |-> Append(h, Obj(ks, vs)), val |-> Prox(Len(h) + 1, bound)]
    ELSE LET prop == h[sourceObject].keys[i]
             v == h[sourceObject].val[prop]
         IN IF IsPlainObject(h, v)
            THEN LET r == BuildInitialProxyChain(h, v.id,
                              BindLast(bound, args \o <<prop>>),
                              args \o <<prop>>)
                 IN ProxyChainLoop(r.heap, sourceObject, bound, args, i + 1,
                                   Append(ks, prop), (prop :> r.val) @@ vs)
            ELSE ProxyChainLoop(h, sourceObject, bound, args, i + 1,
                                Append(ks, prop), (prop :> v) @@ vs)

BuildInitialProxyChain(h, sourceObject, bound, args) ==
    ProxyChainLoop(h, sourceObject, bound, args, 1, <<>>, EmptyMap)

\* new ObservableObject(from, optHandlers): Object.assign(this, chain) copies
\* the top chain's properties into `this`, and `this` is wrapped with the
\* root handlers.
Construct(h, from) ==
    LET r == BuildInitialProxyChain(h, from, <<>>, <<>>)
        this == Obj(r.heap[r.val.id].keys, r.heap[r.val.id].val)
    IN [heap |-> Append(r.heap, this), val |-> Prox(Len(r.heap) + 1, <<>>)]

(***************************************************************************)
(* The set trap.                                                           *)
(***************************************************************************)
\* a chain that holds the assigned property behind what is below it
CompositeChainPathLast(h, prop, value) ==
    ObjectAssign(BuildNotificationChain(h, value, <<prop>>),
                 <<Entry(prop, value)>>)

\* lines 45-47: the chain of an assigned object.
CompositeChain(h, prop, value) ==
    ObjectAssign(<<Entry(prop, value)>>,
                 BuildNotificationChain(h, value, <<prop>>))

\* line 101
ElementKey(args, prop) ==
    IF Len(args) > 0 THEN Join(args \o <<prop>>) ELSE prop

\* a trap without the short-circuit of line 82
SameValueNever(h, obj, prop, value) == FALSE

\* line 82
SameValue(h, obj, prop, value) == Get(h, obj, prop) = value

\* a trap that ignores what the custom handler answers
CustomSetRefusesNever(hook) == FALSE

\* lines 50-56 and 91-97: the custom handler is called when there is one,
\* and only the result `false` stops the write.
CustomSetRefuses(hook) == hook = "false"

\* lines 71-73: the Proxy stored for an assigned object.
WrapAssigned(value, args, prop) ==
    Prox(value.id, BindLast(<<>>, args \o <<prop>>))

\* handlers.set(obj, prop, value, receiver, ...args), up to the delivery
\* loop: the heap after it, what it returns, whether the custom handler was
\* called and the notification chain to deliver.
SetTrap(h, obj, prop, value, args, hook) ==
    IF TypeofObject(value)
    THEN IF CustomSetRefuses(hook)
         THEN [heap |-> h, result |-> FALSE, called |-> hook # "none",
               chain |-> <<>>]
         ELSE [heap |-> Store(h, obj, prop, WrapAssigned(value, args, prop)),
               result |-> TRUE, called |-> hook # "none",
               chain |-> CompositeChain(h, prop, value)]
    ELSE IF SameValue(h, obj, prop, value)
         THEN [heap |-> h, result |-> TRUE, called |-> FALSE, chain |-> <<>>]
         ELSE IF CustomSetRefuses(hook)
              THEN [heap |-> h, result |-> FALSE, called |-> hook # "none",
                    chain |-> <<>>]
              ELSE [heap |-> Store(h, obj, prop, value), result |-> TRUE,
                    called |-> hook # "none",
                    chain |-> <<Entry(ElementKey(args, prop), value)>>]

(***************************************************************************)
(* Channels.                                                               *)
(***************************************************************************)
\* the paths observe() is called with
ObsPaths == {"a", "b", "a.b", "a.c", "a.0", "a.b.c", "a.b.a.c"}

\* the paths observe() is called with once a composite is stored at two places
AliasObsPaths == {"a.b.b", "a.c.b", "a.b.c.b"}

\* every path that observe() is called with
ChannelPaths == ObsPaths \cup AliasObsPaths

HasChannel(obs, p) == p \in DOMAIN obs /\ obs[p] # 0

\* an observe() that makes a new Subject on every call
ObserveChannelAlwaysNew(obs, prop, fresh) == [obs EXCEPT ![prop] = fresh]

\* lines 138-140: the Subject of a path is created on first use.
ObserveChannel(obs, prop, fresh) ==
    IF obs[prop] = 0 THEN [obs EXCEPT ![prop] = fresh] ELSE obs

\* Subject.next(value): every subscription of that Subject receives it.
SubjectNext(subs, subj, value) ==
    [i \in 1..Len(subs) |->
        IF subs[i].subj = subj /\ subs[i].active
        THEN [subs[i] EXCEPT !.rcvd = Append(@, value)]
        ELSE subs[i]]

\* lines 107-113: the delivery loop, in the chain's key order.
RECURSIVE Deliver(_, _, _)
Deliver(chain, obs, st) ==
    IF chain = <<>> THEN st
    ELSE LET e == Head(chain)
         IN IF HasChannel(obs, e.path)
            THEN Deliver(Tail(chain), obs,
                    [subs |-> SubjectNext(st.subs, obs[e.path], e.val),
                     calls |-> [st.calls EXCEPT ![e.path] = @ + 1],
                     emitted |-> Append(st.emitted, e)])
            ELSE Deliver(Tail(chain), obs, st)

(***************************************************************************)
(* The caller: the object the root is constructed from, the places it      *)
(* writes to and the values it writes.                                     *)
(***************************************************************************)
\* from = {a: {b: {c: 1}, c: [1]}}
FromHeap ==
    << Obj(<<"a">>, "a" :> Ref(2)),
       Obj(<<"b", "c">>, ("b" :> Ref(3)) @@ ("c" :> Ref(4))),
       Obj(<<"c">>, "c" :> Prim(1)),
       Arr(<<"0">>, "0" :> Prim(1)) >>

\* the places the caller assigns to and deletes: root.a, root.a.b, root.a.b.c
Targets == {<<"a">>, <<"a", "b">>, <<"a", "b", "c">>}

Front(s) == SubSeq(s, 1, Len(s) - 1)
Last(s) == s[Len(s)]

\* reading root.k1.k2...: the get trap is Reflect.get (lines 117-123)
RECURSIVE Resolve(_, _, _)
Resolve(h, cur, path) ==
    IF path = <<>> THEN cur
    ELSE IF TypeofObject(cur)
         THEN Resolve(h, Get(h, cur.id, Head(path)), Tail(path))
         ELSE Undefined

\* the right-hand sides of the caller's assignments
ValueSpecs == {"one", "two", "flat", "nested", "array"}

ShiftVal(v, off) == IF v.t = "ref" THEN Ref(v.id + off) ELSE v

ShiftObj(o, off) ==
    [o EXCEPT !.val = [k \in DOMAIN @ |-> ShiftVal(@[k], off)]]

\* the objects an object literal creates when it is evaluated, the literal's
\* own object first: {b: 2, c: 3}, {b: {c: 1}}, [1], and the object that
\* V = {b: 2}; V.c = V makes
LiteralObjects(spec) ==
    CASE spec = "flat" ->
            << Obj(<<"b", "c">>, ("b" :> Prim(2)) @@ ("c" :> Prim(3))) >>
      [] spec = "nested" ->
            << Obj(<<"b">>, "b" :> Ref(2)), Obj(<<"c">>, "c" :> Prim(1)) >>
      [] spec = "array" ->
            << Arr(<<"0">>, "0" :> Prim(1)) >>
      [] spec = "cyclic" ->
            << Obj(<<"b", "c">>, ("b" :> Prim(2)) @@ ("c" :> Ref(1))) >>
      [] OTHER -> <<>>

Allocate(h, spec) ==
    LET objs == LiteralObjects(spec)
    IN h \o [i \in 1..Len(objs) |-> ShiftObj(objs[i], Len(h))]

ValueOf(h, spec) ==
    CASE spec = "one" -> Prim(1)
      [] spec = "two" -> Prim(2)
      [] OTHER -> Ref(Len(h) + 1)

NoOp == [kind |-> "new", node |-> <<>>, key |-> "", val |-> Undefined,
         intercepted |-> FALSE, called |-> FALSE, result |-> TRUE,
         emitted |-> <<>>]

(***************************************************************************)
(* The state after construction, and the operations.                       *)
(***************************************************************************)
\* optHandlers: no override hook, or a set and a deleteProperty hook that
\* both answer true, or both answer false.
HookPolicies == {"none", "true", "false"}

Init ==
    /\ LET c == Construct(FromHeap, 1)
       IN heap = c.heap /\ root = c.val
    /\ optHandlers \in [set : HookPolicies, deleteProperty : HookPolicies]
    /\ optHandlers.set = optHandlers.deleteProperty
    /\ observedObjects = [p \in ChannelPaths |-> 0]
    /\ nSubjects = 0
    /\ subscribers = <<>>
    /\ nextCalls = [p \in ChannelPaths |-> 0]
    /\ nOps = 0
    /\ lastOp = NoOp

\* observe(prop) (lines 137-143), and a subscription on the Observable it
\* returns.
DoObserve(prop) ==
    /\ observedObjects' = ObserveChannel(observedObjects, prop, nSubjects + 1)
    /\ nSubjects' = IF observedObjects'[prop] = nSubjects + 1
                    THEN nSubjects + 1 ELSE nSubjects
    /\ subscribers' = Append(subscribers,
            [path |-> prop, subj |-> observedObjects'[prop], active |-> TRUE,
             since |-> nextCalls[prop], rcvd |-> <<>>])
    /\ lastOp' = [NoOp EXCEPT !.kind = "observe", !.key = prop]
    /\ nOps' = nOps + 1
    /\ UNCHANGED <<heap, root, optHandlers, nextCalls>>

\* root.<path> = value, h1 being the heap once the right-hand side is
\* evaluated: the caller reads the node at the path's front and
\* assigns its last key.  The set trap of a Proxy (lines 41-116) runs, or a
\* plain store when the node is an object that is not wrapped.  The caller
\* assigns properties of plain objects only, never elements of an array.
DoAssign(path, h1, value) ==
    /\ LET node == Resolve(heap, root, Front(path))
           prop == Last(path)
       IN /\ IsPlainObject(heap, node)
          /\ IF node.t = "proxy"
             THEN LET r == SetTrap(h1, node.id, prop, value, node.args,
                                   optHandlers.set)
                      d == Deliver(r.chain, observedObjects,
                                   [subs |-> subscribers, calls |-> nextCalls,
                                    emitted |-> <<>>])
                  IN /\ heap' = r.heap
                     /\ subscribers' = d.subs
                     /\ nextCalls' = d.calls
                     /\ lastOp' = [kind |-> "set", node |-> Front(path),
                                   key |-> prop, val |-> value,
                                   intercepted |-> TRUE, called |-> r.called,
                                   result |-> r.result, emitted |-> d.emitted]
             ELSE /\ heap' = Store(h1, node.id, prop, value)
                  /\ lastOp' = [kind |-> "set", node |-> Front(path),
                                key |-> prop, val |-> value,
                                intercepted |-> FALSE, called |-> FALSE,
                                result |-> TRUE, emitted |-> <<>>]
                  /\ UNCHANGED <<subscribers, nextCalls>>
    /\ nOps' = nOps + 1
    /\ UNCHANGED <<root, optHandlers, observedObjects, nSubjects>>

\* root.<path> = <literal>
DoSet(path, spec) ==
    DoAssign(path, Allocate(heap, spec), ValueOf(heap, spec))

\* delete root.<path>: the handlers define no deleteProperty trap of their
\* own (lines 38-124), so a Proxy forwards the deletion to the caller's trap
\* when optHandlers has one (it removes the property and answers true, or
\* refuses and answers false), and to the object otherwise.
DoDelete(path) ==
    /\ LET node == Resolve(heap, root, Front(path))
           prop == Last(path)
           hooked == node.t = "proxy" /\ optHandlers.deleteProperty # "none"
           removed == ~(hooked /\ optHandlers.deleteProperty = "false")
       IN /\ IsPlainObject(heap, node)
          /\ prop \in DOMAIN heap[node.id].val
          /\ heap' = IF removed THEN Remove(heap, node.id, prop) ELSE heap
          /\ lastOp' = [kind |-> "delete", node |-> Front(path), key |-> prop,
                        val |-> Undefined, intercepted |-> node.t = "proxy",
                        called |-> hooked, result |-> removed,
                        emitted |-> <<>>]
    /\ nOps' = nOps + 1
    /\ UNCHANGED <<root, optHandlers, observedObjects, nSubjects, subscribers,
                   nextCalls>>

\* the caller performs at most MaxOps operations
Observe(prop) == nOps < MaxOps /\ DoObserve(prop)
Set(path, spec) == nOps < MaxOps /\ DoSet(path, spec)
Delete(path) == nOps < MaxOps /\ DoDelete(path)

Next ==
    \/ \E prop \in ObsPaths : Observe(prop)
    \/ \E path \in Targets, spec \in ValueSpecs : Set(path, spec)
    \/ \E path \in Targets : Delete(path)

Spec == Init /\ [][Next]_vars

(***************************************************************************)
(* snapshot (lines 163-198).  The argument is given as the segments that   *)
(* path.split(".") makes of it; the empty sequence is the call without a   *)
(* path (an empty string is falsy and takes the same branch, line 167).    *)
(***************************************************************************)
\* the own property of `this` that is keyed by the observedObjects symbol
\* (line 21), and the channel table it holds
ObservedObjectsKey == "Symbol(observedObjects)"
ChannelTable == [t |-> "observed"]

\* Object.assign({}, source) (line 186): a plain object with the own
\* enumerable properties of the source, whatever the source is.
ShallowCopy(h, source) == Obj(h[source.id].keys, h[source.id].val)

\* Object.assign({}, this) (line 191): the symbol-keyed property is copied
\* too, behind the string keys.
ShallowCopyOfThis(h, this) ==
    Obj(Append(h[this.id].keys, ObservedObjectsKey),
        (ObservedObjectsKey :> ChannelTable) @@ h[this.id].val)

\* a snapshot that keeps the symbol-keyed property
KeepObservedObjects(h, id) == h

\* delete snapshot[observedObjects] (line 194)
DeleteObservedObjects(h, id) == Remove(h, id, ObservedObjectsKey)

\* lines 168-178: the reducer over the segments; `acc` is the value reached
\* so far, and a false `firstUnavailableKey` (the empty string) is replaced
\* by the current segment (line 173).
RECURSIVE SnapshotReduce(_, _, _, _)
SnapshotReduce(h, acc, segments, firstUnavailableKey) ==
    IF segments = <<>>
    THEN [snapshot |-> acc, firstUnavailableKey |-> firstUnavailableKey]
    ELSE LET current == Head(segments)
         IN IF ~(/\ IsPlainObject(h, acc)
                 /\ current # ""
                 /\ current \in DOMAIN h[acc.id].val)
            THEN SnapshotReduce(h, Undefined, Tail(segments),
                    IF firstUnavailableKey # "" THEN firstUnavailableKey
                    ELSE current)
            ELSE SnapshotReduce(h, Get(h, acc.id, current), Tail(segments),
                                firstUnavailableKey)

\* snapshot(path) called on `this`: the heap after it, the value returned
\* and the messages given to roxeDebug.
Snapshot(h, this, segments) ==
    IF segments # <<>>
    THEN LET r == SnapshotReduce(h, this, segments, "")
         IN IF r.snapshot = Undefined
            THEN [heap |-> h, ret |-> Undefined,
                  debug |-> << [path |-> Join(segments),
                                key |-> r.firstUnavailableKey] >>]
            ELSE IF TypeofObject(r.snapshot)
                 THEN [heap |-> Append(h, ShallowCopy(h, r.snapshot)),
                       ret |-> Ref(Len(h) + 1), debug |-> <<>>]
                 ELSE [heap |-> h, ret |-> r.snapshot, debug |-> <<>>]
    ELSE [heap |-> DeleteObservedObjects(
                       Append(h, ShallowCopyOfThis(h, this)), Len(h) + 1),
          ret |-> Ref(Len(h) + 1), debug |-> <<>>]

\* the paths the caller takes snapshots of: none, "a", "a.b", "a.c",
\* "a.b.c", "b.c" and "a..b"
SnapshotPaths ==
    {<<>>, <<"a">>, <<"a", "b">>, <<"a", "c">>, <<"a", "b", "c">>,
     <<"b", "c">>, <<"a", "", "b">>}

\* root.snapshot(path)
DoSnapshot(segments) ==
    /\ LET r == Snapshot(heap, root, segments)
       IN /\ heap' = r.heap
          /\ lastOp' = [kind |-> "snapshot", node |-> segments, key |-> "",
                        val |-> r.ret, intercepted |-> FALSE,
                        called |-> FALSE, result |-> TRUE, emitted |-> <<>>,
                        debug |-> r.debug]
    /\ nOps' = nOps + 1
    /\ UNCHANGED <<root, optHandlers, observedObjects, nSubjects, subscribers,
                   nextCalls>>

\* what the caller does to an object a snapshot returned
CopyChanges == {"two", "delete"}

\* copy[key] = 2, or delete copy[key], on the object the snapshot just taken
\* returned: a plain store or removal, unless that object is a Proxy.
DoChangeCopy(key, change) ==
    /\ lastOp.kind = "snapshot"
    /\ TypeofObject(lastOp.val)
    /\ LET copy == lastOp.val
       IN IF change = "delete"
          THEN /\ key \in DOMAIN heap[copy.id].val
               /\ heap' = Remove(heap, copy.id, key)
               /\ lastOp' = [kind |-> "copy", node |-> <<>>, key |-> key,
                             val |-> Undefined, intercepted |-> FALSE,
                             called |-> FALSE, result |-> TRUE,
                             emitted |-> <<>>, copy |-> copy]
               /\ UNCHANGED <<subscribers, nextCalls>>
          ELSE IF copy.t = "proxy"
               THEN LET r == SetTrap(heap, copy.id, key, Prim(2), copy.args,
                                     optHandlers.set)
                        d == Deliver(r.chain, observedObjects,
                                     [subs |-> subscribers,
                                      calls |-> nextCalls, emitted |-> <<>>])
                    IN /\ heap' = r.heap
                       /\ subscribers' = d.subs
                       /\ nextCalls' = d.calls
                       /\ lastOp' = [kind |-> "copy", node |-> <<>>,
                                     key |-> key, val |-> Prim(2),
                                     intercepted |-> TRUE,
                                     called |-> r.called,
                                     result |-> r.result,
                                     emitted |-> d.emitted, copy |-> copy]
               ELSE /\ heap' = Store(heap, copy.id, key, Prim(2))
                    /\ lastOp' = [kind |-> "copy", node |-> <<>>,
                                  key |-> key, val |-> Prim(2),
                                  intercepted |-> FALSE, called |-> FALSE,
                                  result |-> TRUE, emitted |-> <<>>,
                                  copy |-> copy]
                    /\ UNCHANGED <<subscribers, nextCalls>>
    /\ nOps' = nOps + 1
    /\ UNCHANGED <<root, optHandlers, observedObjects, nSubjects>>

\* A caller that takes snapshots and changes what they return, between
\* writes and deletions of the tree.
SnapshotObsPaths == {"a", "a.b"}
SnapshotValueSpecs == {"two", "flat", "array"}
CopyKeys == {"b", "c"}

SnapshotObserve(prop) == nOps < MaxOps /\ DoObserve(prop)
SnapshotSet(path, spec) == nOps < MaxOps /\ DoSet(path, spec)
SnapshotDelete(path) == nOps < MaxOps /\ DoDelete(path)
TakeSnapshot(segments) == nOps < MaxOps /\ DoSnapshot(segments)
ChangeCopy(key, change) == nOps < MaxOps /\ DoChangeCopy(key, change)

NextSnapshot ==
    \/ \E prop \in SnapshotObsPaths : SnapshotObserve(prop)
    \/ \E path \in Targets, spec \in SnapshotValueSpecs : SnapshotSet(path, spec)
    \/ \E path \in Targets : SnapshotDelete(path)
    \/ \E segments \in SnapshotPaths : TakeSnapshot(segments)
    \/ \E key \in CopyKeys, change \in CopyChanges : ChangeCopy(key, change)

SpecSnapshot == Init /\ [][NextSnapshot]_vars

(***************************************************************************)
(* unsubscribeAll (lines 150-152).                                         *)
(***************************************************************************)
\* an unsubscribeAll that closes every subscription of the Subjects the
\* given subscriptions belong to
UnsubscribeWholeSubject(subs, handles) ==
    [i \in 1..Len(subs) |->
        IF \E j \in handles : subs[j].subj = subs[i].subj
        THEN [subs[i] EXCEPT !.active = FALSE]
        ELSE subs[i]]

\* subscriptions.forEach(sub => sub.unsubscribe()): a closed Subscription
\* receives nothing more from its Subject, the Subject itself is not touched.
Unsubscribe(subs, handles) ==
    [i \in 1..Len(subs) |->
        IF i \in handles THEN [subs[i] EXCEPT !.active = FALSE] ELSE subs[i]]

\* root.unsubscribeAll(handles): the handles are subscriptions made before,
\* by their position in `subscribers`.
DoUnsubscribeAll(handles) ==
    /\ handles \subseteq 1..Len(subscribers)
    /\ subscribers' = Unsubscribe(subscribers, handles)
    /\ lastOp' = [kind |-> "unsubscribeAll", node |-> <<>>, key |-> "",
                  val |-> Undefined, intercepted |-> FALSE, called |-> FALSE,
                  result |-> TRUE, emitted |-> <<>>, handles |-> handles]
    /\ nOps' = nOps + 1
    /\ UNCHANGED <<heap, root, optHandlers, observedObjects, nSubjects,
                   nextCalls>>

\* A caller that subscribes, cancels subscriptions and writes primitives at
\* root.a and root.a.b, MaxSubscriptionOps operations at most.
MaxSubscriptionOps == 5
SubscriptionObsPaths == {"a", "a.b"}
SubscriptionTargets == {<<"a">>, <<"a", "b">>}
SubscriptionValueSpecs == {"one", "two"}
Handles == SUBSET (1..MaxSubscriptionOps) \ {{}}

SubscriptionObserve(prop) == nOps < MaxSubscriptionOps /\ DoObserve(prop)
SubscriptionSet(path, spec) == nOps < MaxSubscriptionOps /\ DoSet(path, spec)
UnsubscribeAll(handles) ==
    nOps < MaxSubscriptionOps /\ DoUnsubscribeAll(handles)

NextSubscription ==
    \/ \E prop \in SubscriptionObsPaths : SubscriptionObserve(prop)
    \/ \E path \in SubscriptionTargets, spec \in SubscriptionValueSpecs :
          SubscriptionSet(path, spec)
    \/ \E handles \in Handles : UnsubscribeAll(handles)

SpecSubscription == Init /\ [][NextSubscription]_vars

(***************************************************************************)
(* One composite stored at two places.                                     *)
(***************************************************************************)
\* V = {b: 2, c: 3}; root.<p1> = V; root.<path> = V: the caller assigns the
\* object it has just assigned to another place, outside that object.
DoAssignSame(path) ==
    /\ lastOp.kind = "set"
    /\ lastOp.val.t = "ref"
    /\ path # lastOp.node \o <<lastOp.key>>
    /\ LET node == Resolve(heap, root, Front(path))
       IN IsPlainObject(heap, node) /\ node.id # lastOp.val.id
    /\ DoAssign(path, heap, lastOp.val)

\* A caller that stores one flat composite at two of the places root.a.b,
\* root.a.c and root.a.b.c, and writes a primitive at its key b through
\* either place, MaxAliasOps operations at most.
MaxAliasOps == 4
AliasTargets == {<<"a", "b">>, <<"a", "c">>, <<"a", "b", "c">>}
AliasLeafTargets == {P \o <<"b">> : P \in AliasTargets}
AliasValueSpecs == {"one", "two"}

AliasObserve(prop) == nOps < MaxAliasOps /\ DoObserve(prop)
AliasAssign(path) == nOps < MaxAliasOps /\ DoSet(path, "flat")
AliasAssignSame(path) == nOps < MaxAliasOps /\ DoAssignSame(path)
AliasWrite(path, spec) == nOps < MaxAliasOps /\ DoSet(path, spec)

NextAlias ==
    \/ \E prop \in AliasObsPaths : AliasObserve(prop)
    \/ \E path \in AliasTargets : AliasAssign(path)
    \/ \E path \in AliasTargets : AliasAssignSame(path)
    \/ \E path \in AliasLeafTargets, spec \in AliasValueSpecs :
          AliasWrite(path, spec)

SpecAlias == Init /\ [][NextAlias]_vars

(***************************************************************************)
(* Subscribers that write.  A callback given to subscribe() may assign to  *)
(* the tree; Subject.next calls it inside the delivery loop of the write   *)
(* being notified (lines 107-113), so the set trap runs again before that  *)
(* loop goes on.  The state of a write in progress is a record: the heap,  *)
(* the subscriptions, the next() counters, the number of trap calls so far *)
(* and a log of what happened, in order:                                   *)
(*   enter    trap call w has run up to the delivery loop (line 107)       *)
(*   next     trap call w calls Subject.next(val) on the channel of path   *)
(*   receive  the callback of subscription sub is called with val          *)
(*   return   trap call w returns (line 115)                               *)
(* Without callbacks that write it is the delivery of Deliver.             *)
(***************************************************************************)
Event(e, w, path, val, sub) ==
    [e |-> e, w |-> w, path |-> path, val |-> val, sub |-> sub]

Logged(st, event) == [st EXCEPT !.log = Append(@, event)]

HasCallback(sub) == "callback" \in DOMAIN sub

Return(st, w) == Logged(st, Event("return", w, "", Undefined, 0))

RECURSIVE SetTrapReentrant(_, _, _, _)
RECURSIVE DeliverReentrant(_, _, _)
RECURSIVE SubjectNextReentrant(_, _, _, _)

\* the callback's code: root.<path> = val when the node to assign on is there
Callback(st, callback) ==
    LET node == Resolve(st.heap, root, Front(callback.path))
    IN IF ~IsPlainObject(st.heap, node) THEN st
       ELSE IF node.t = "proxy"
            THEN SetTrapReentrant(st, node, Last(callback.path), callback.val)
            ELSE [st EXCEPT !.heap = Store(@, node.id, Last(callback.path),
                                           callback.val)]

\* Subject.next(e.val) made by trap call w, from the i-th subscription on:
\* each open subscription of the Subject has its callback called, in
\* subscription order, and what a callback does is done when it is called.
SubjectNextReentrant(st, e, w, i) ==
    IF i > Len(st.subs) THEN st
    ELSE IF st.subs[i].subj = observedObjects[e.path] /\ st.subs[i].active
         THEN LET got == Logged([st EXCEPT !.subs[i].rcvd = Append(@, e.val)],
                                Event("receive", w, e.path, e.val, i))
                  done == IF HasCallback(st.subs[i])
                          THEN Callback(got, st.subs[i].callback)
                          ELSE got
              IN SubjectNextReentrant(done, e, w, i + 1)
         ELSE SubjectNextReentrant(st, e, w, i + 1)

\* lines 107-113: the delivery loop of trap call w
DeliverReentrant(st, chain, w) ==
    IF chain = <<>> THEN st
    ELSE LET e == Head(chain)
         IN IF HasChannel(observedObjects, e.path)
            THEN DeliverReentrant(
                    SubjectNextReentrant(
                        Logged([st EXCEPT !.calls[e.path] = @ + 1],
                               Event("next", w, e.path, e.val, 0)),
                        e, w, 1),
                    Tail(chain), w)
            ELSE DeliverReentrant(st, Tail(chain), w)

\* a trap that returns to its caller and delivers afterwards
ReturnThenDeliver(st, chain, w) == DeliverReentrant(Return(st, w), chain, w)

\* lines 107-115: the loop runs to its end, then the trap returns
DeliverThenReturn(st, chain, w) == Return(DeliverReentrant(st, chain, w), w)

\* handlers.set as the (st.nWrites + 1)-th trap call of a write in progress
SetTrapReentrant(st, node, prop, value) ==
    LET r == SetTrap(st.heap, node.id, prop, value, node.args,
                     optHandlers.set)
        w == st.nWrites + 1
        entered == Logged([st EXCEPT !.heap = r.heap, !.nWrites = w],
                          [e |-> "enter", w |-> w, path |-> "",
                           val |-> value, sub |-> 0, chain |-> r.chain])
    IN DeliverThenReturn(entered, r.chain, w)

\* root.<path> = value by a caller whose subscribers may write
DoAssignReentrant(path, h1, value) ==
    /\ LET node == Resolve(heap, root, Front(path))
           prop == Last(path)
       IN /\ IsPlainObject(heap, node)
          /\ node.t = "proxy"
          /\ LET r == SetTrap(h1, node.id, prop, value, node.args,
                              optHandlers.set)
                 st == SetTrapReentrant(
                          [heap |-> h1, subs |-> subscribers,
                           calls |-> nextCalls, nWrites |-> 0, log |-> <<>>],
                          node, prop, value)
             IN /\ heap' = st.heap
                /\ subscribers' = st.subs
                /\ nextCalls' = st.calls
                /\ lastOp' = [kind |-> "set", node |-> Front(path),
                              key |-> prop, val |-> value,
                              intercepted |-> TRUE, called |-> r.called,
                              result |-> r.result,
                              emitted |-> SelectSeq(st.log,
                                             LAMBDA x : x.e = "next"),
                              log |-> st.log]
    /\ nOps' = nOps + 1
    /\ UNCHANGED <<root, optHandlers, observedObjects, nSubjects>>

\* observe(prop).subscribe(callback) with a callback that writes; one such
\* subscriber at most, so that its writes come to an end.
DoObserveWriting(prop, callback) ==
    /\ \A i \in 1..Len(subscribers) : ~HasCallback(subscribers[i])
    /\ observedObjects' = ObserveChannel(observedObjects, prop, nSubjects + 1)
    /\ nSubjects' = IF observedObjects'[prop] = nSubjects + 1
                    THEN nSubjects + 1 ELSE nSubjects
    /\ subscribers' = Append(subscribers,
            [path |-> prop, subj |-> observedObjects'[prop], active |-> TRUE,
             since |-> nextCalls[prop], rcvd |-> <<>>,
             callback |-> callback])
    /\ lastOp' = [NoOp EXCEPT !.kind = "observe", !.key = prop]
    /\ nOps' = nOps + 1
    /\ UNCHANGED <<heap, root, optHandlers, nextCalls>>

\* A caller that observes "a", "a.b" and "a.c", gives one subscriber a
\* callback that writes 1 at root.a.b or at root.a.c, and assigns at root.a
\* and root.a.b, MaxReentrantOps operations at most.
MaxReentrantOps == 4
ReentrantObsPaths == {"a", "a.b", "a.c"}
ReentrantTargets == {<<"a">>, <<"a", "b">>}
ReentrantValueSpecs == {"two", "flat"}
Callbacks ==
    {[path |-> t, val |-> Prim(1)] : t \in {<<"a", "b">>, <<"a", "c">>}}

ReentrantObserve(prop) == nOps < MaxReentrantOps /\ DoObserve(prop)
ObserveWriting(prop, callback) ==
    nOps < MaxReentrantOps /\ DoObserveWriting(prop, callback)
ReentrantSet(path, spec) ==
    /\ nOps < MaxReentrantOps
    /\ DoAssignReentrant(path, Allocate(heap, spec), ValueOf(heap, spec))

NextReentrant ==
    \/ \E prop \in ReentrantObsPaths : ReentrantObserve(prop)
    \/ \E prop \in ReentrantObsPaths, callback \in Callbacks :
          ObserveWriting(prop, callback)
    \/ \E path \in ReentrantTargets, spec \in ReentrantValueSpecs :
          ReentrantSet(path, spec)

SpecReentrant == Init /\ [][NextReentrant]_vars

(***************************************************************************)
(* Composites that hold themselves.  buildNotificationChain calls itself   *)
(* for every plain object it meets (lines 241-243) and keeps no record of  *)
(* the objects it has been called on; the engine ends a recursion that     *)
(* has StackLimit calls on the stack with a RangeError.                    *)
(***************************************************************************)
StackLimit == 4

RECURSIVE ChainCalls(_, _, _)
RECURSIVE ChainCallsLoop(_, _, _, _, _)
\* the for-in loop of buildNotificationChain from the i-th key on, as to
\* which calls it makes: acc holds the objects called on so far and whether
\* the stack has overflowed, which ends every loop on the stack.
ChainCallsLoop(h, source, depth, i, acc) ==
    IF acc.overflow \/ i > Len(h[source.id].keys) THEN acc
    ELSE LET v == h[source.id].val[h[source.id].keys[i]]
         IN IF IsPlainObject(h, v)
            THEN LET r == ChainCalls(h, v, depth + 1)
                 IN ChainCallsLoop(h, source, depth, i + 1,
                        [visited |-> acc.visited \o r.visited,
                         overflow |-> r.overflow])
            ELSE ChainCallsLoop(h, source, depth, i + 1, acc)

\* buildNotificationChain(source, ...) entered with depth - 1 calls of it on
\* the stack: the objects it and the calls below it are called on, in order
ChainCalls(h, source, depth) ==
    IF depth > StackLimit THEN [visited |-> <<>>, overflow |-> TRUE]
    ELSE ChainCallsLoop(h, source, depth, 1,
                        [visited |-> <<source.id>>, overflow |-> FALSE])

\* root.<path> = value where the value may hold itself: the trap builds the
\* chain first (lines 45-47), so a RangeError leaves the trap before the
\* hook is called and before anything is stored or delivered.
DoAssignDeep(path, h1, value) ==
    LET node == Resolve(heap, root, Front(path))
    IN IF /\ IsPlainObject(heap, node)
          /\ node.t = "proxy"
          /\ TypeofObject(value)
          /\ ChainCalls(h1, value, 1).overflow
       THEN /\ heap' = h1
            /\ lastOp' = [kind |-> "set", node |-> Front(path),
                          key |-> Last(path), val |-> value,
                          intercepted |-> TRUE, called |-> FALSE,
                          result |-> FALSE, emitted |-> <<>>,
                          threw |-> "RangeError"]
            /\ nOps' = nOps + 1
            /\ UNCHANGED <<root, optHandlers, observedObjects, nSubjects,
                           subscribers, nextCalls>>
       ELSE DoAssign(path, h1, value)

\* A caller that also assigns the composite V = {b: 2}; V.c = V.
CyclicObsPaths == {"a", "a.c"}
CyclicValueSpecs == {"flat", "nested", "cyclic"}

CyclicObserve(prop) == nOps < MaxOps /\ DoObserve(prop)
CyclicSet(path, spec) ==
    /\ nOps < MaxOps
    /\ DoAssignDeep(path, Allocate(heap, spec), ValueOf(heap, spec))

NextCyclic ==
    \/ \E prop \in CyclicObsPaths : CyclicObserve(prop)
    \/ \E path \in Targets, spec \in CyclicValueSpecs : CyclicSet(path, spec)

SpecCyclic == Init /\ [][NextCyclic]_vars

(***************************************************************************)
(* Vocabulary of the properties.                                           *)
(***************************************************************************)
\* the dotted path the caller's last operation was aimed at
OpPath(op) == Join(op.node \o <<op.key>>)

\* the key sequences from a composite to its leaves (primitives and arrays)
RECURSIVE LeafPaths(_, _)
LeafPaths(h, v) ==
    UNION { IF IsPlainObject(h, h[v.id].val[k])
            THEN {<<k>> \o l : l \in LeafPaths(h, h[v.id].val[k])}
            ELSE {<<k>>} : k \in DOMAIN h[v.id].val }

\* the key sequences from a composite to everything below it
RECURSIVE DescendantPaths(_, _)
DescendantPaths(h, v) ==
    UNION { IF IsPlainObject(h, h[v.id].val[k])
            THEN {<<k>>} \cup
                 {<<k>> \o l : l \in DescendantPaths(h, h[v.id].val[k])}
            ELSE {<<k>>} : k \in DOMAIN h[v.id].val }

\* a composite all of whose values are primitives
IsFlat(h, v) ==
    IsPlainObject(h, v) /\ \A k \in DOMAIN h[v.id].val : h[v.id].val[k].t = "prim"

\* how many notifications of a delivery went to path p
Count(emitted, p) == Cardinality({i \in 1..Len(emitted) : emitted[i].path = p})

ValuesOn(emitted, p) ==
    LET F[i \in 0..Len(emitted)] ==
            IF i = 0 THEN <<>>
            ELSE IF emitted[i].path = p THEN Append(F[i - 1], emitted[i].val)
            ELSE F[i - 1]
    IN F[Len(emitted)]

\* the last n elements of a sequence
LastN(s, n) == SubSeq(s, Len(s) - n + 1, Len(s))

\* the key sequences a dotted path is made of
PathKeys == {"a", "b", "c", "0"}
KeySeqs ==
    {<<k>> : k \in PathKeys} \cup {<<k, j>> : k \in PathKeys, j \in PathKeys}
    \cup {<<k, j, l>> : k \in PathKeys, j \in PathKeys, l \in PathKeys}
Suffixes == {Join(q) : q \in KeySeqs}

\* d is a descendant path of p
IsUnder(d, p) == \E q \in Suffixes : d = p \o "." \o q

\* the places the caller can read a value at: root, root.k, root.k.j, ...
ReachPaths ==
    {<<>>} \cup {q \in KeySeqs : \A i \in 1..Len(q) : q[i] # "0"}

\* the objects that existed before a step are what they were
SameObjects == \A i \in 1..Len(heap) : heap'[i] = heap[i]

\* a write that took effect: it was not refused by an override hook
AppliedSet(op) == op.kind = "set" /\ op.result

(***************************************************************************)
(* C1.  Assigning a composite V at any path P delivers exactly one         *)
(* notification per leaf of V, on the channel of that leaf's path under P, *)
(* exactly one on the channel of P, and nothing on any other channel.      *)
(* It does not hold of the code: the composite branch of the set trap      *)
(* builds its chain from `prop` alone and drops the keys bound to a nested *)
(* node (lines 45-47), and the chain also holds every composite inside V.  *)
(***************************************************************************)
C1_CompositeAssignNotifiesLeavesAndPath ==
    (AppliedSet(lastOp) /\ IsPlainObject(heap, lastOp.val)) =>
        LET P == lastOp.node \o <<lastOp.key>>
            expected == {Join(P)} \cup
                        {Join(P \o l) : l \in LeafPaths(heap, lastOp.val)}
        IN \A p \in ObsPaths :
              HasChannel(observedObjects, p) =>
                 Count(lastOp.emitted, p) = IF p \in expected THEN 1 ELSE 0

(***************************************************************************)
(* C2.  A write root.k = V of a flat composite V that takes effect         *)
(* delivers V[j] on "k.j" for each key j of V whose path has a channel,    *)
(* and V itself on "k" when "k" has a channel: one notification each,      *)
(* received by every subscriber of the channel.                            *)
(***************************************************************************)
C2_RootFlatAssignDelivers ==
    (AppliedSet(lastOp) /\ lastOp.node = <<>> /\ IsFlat(heap, lastOp.val)) =>
        LET k == lastOp.key
            V == heap[lastOp.val.id]
            wanted == [p \in {k} \cup {Join(<<k, j>>) : j \in DOMAIN V.val} |->
                         IF p = k THEN lastOp.val
                         ELSE V.val[CHOOSE j \in DOMAIN V.val : p = Join(<<k, j>>)]]
        IN \A p \in DOMAIN wanted :
              HasChannel(observedObjects, p) =>
                 /\ ValuesOn(lastOp.emitted, p) = <<wanted[p]>>
                 /\ \A i \in 1..Len(subscribers) :
                       subscribers[i].subj = observedObjects[p] =>
                          /\ Len(subscribers[i].rcvd) >= 1
                          /\ LastN(subscribers[i].rcvd, 1) = <<wanted[p]>>

\* root.a = {b: 2, c: 3} with "a" and "a.b" observed: the composite went to
\* "a" and 2 to "a.b".
C2_Witness ==
    /\ AppliedSet(lastOp) /\ lastOp.node = <<>> /\ lastOp.key = "a"
    /\ IsFlat(heap, lastOp.val)
    /\ Len(subscribers) = 2
    /\ \E i, j \in 1..2 :
          /\ subscribers[i].path = "a" /\ subscribers[i].rcvd = <<lastOp.val>>
          /\ subscribers[j].path = "a.b" /\ subscribers[j].rcvd = <<Prim(2)>>

(***************************************************************************)
(* C3.  Writing a primitive to a place that already stores the identical   *)
(* value succeeds, leaves every object as it was and notifies nobody; so   *)
(* when a primitive write that took effect is repeated, the repetition     *)
(* emits nothing and the pair emits at most the first write's one          *)
(* notification.                                                           *)
(***************************************************************************)
C3_IdenticalWriteIsNoOp ==
    [][ (lastOp'.kind = "set" /\ lastOp'.val.t = "prim") =>
          LET node == Resolve(heap, root, lastOp'.node)
              repeated == /\ AppliedSet(lastOp) /\ lastOp.val = lastOp'.val
                          /\ lastOp.node = lastOp'.node
                          /\ lastOp.key = lastOp'.key
          IN /\ Get(heap, node.id, lastOp'.key) = lastOp'.val =>
                   /\ lastOp'.result = TRUE
                   /\ heap' = heap
                   /\ lastOp'.emitted = <<>>
                   /\ subscribers' = subscribers
                   /\ nextCalls' = nextCalls
             /\ repeated =>
                   /\ lastOp'.result = TRUE
                   /\ heap' = heap
                   /\ lastOp'.emitted = <<>>
                   /\ Len(lastOp.emitted) + Len(lastOp'.emitted) <= 1
    ]_vars

\* root.a.b = 2 twice with "a.b" observed: the subscriber holds one value.
C3_Witness ==
    /\ AppliedSet(lastOp) /\ lastOp.val = Prim(2) /\ lastOp.intercepted
    /\ lastOp.emitted = <<>>
    /\ nOps = 3
    /\ Len(subscribers) = 1
    /\ subscribers[1].path = OpPath(lastOp)
    /\ subscribers[1].rcvd = <<Prim(2)>>
    /\ nextCalls[OpPath(lastOp)] = 1

(***************************************************************************)
(* C4.  A confirmed deletion of the property at path P delivers the        *)
(* "removed" sentinel on the channel of P (and of P's descendants) and on  *)
(* no other channel; a deletion that is not confirmed delivers nothing.    *)
(* It does not hold of the code: the handlers have no deleteProperty trap, *)
(* so a deletion never reaches the delivery loop.                          *)
(***************************************************************************)
C4_DeleteNotifiesPathAndDescendants ==
    lastOp.kind = "delete" =>
        IF lastOp.result
        THEN \A p \in ObsPaths :
                HasChannel(observedObjects, p) =>
                   /\ p = OpPath(lastOp) =>
                         ValuesOn(lastOp.emitted, p) = <<Undefined>>
                   /\ (p # OpPath(lastOp) /\ ~IsUnder(p, OpPath(lastOp))) =>
                         Count(lastOp.emitted, p) = 0
        ELSE lastOp.emitted = <<>>

(***************************************************************************)
(* C5.  Two subscribers whose streams come from two observe(P) calls on    *)
(* the same path both receive, once each and in the same order, every      *)
(* notification delivered on P after the later of them subscribed.         *)
(***************************************************************************)
C5_SharedChannel ==
    \A i, j \in 1..Len(subscribers) :
        (i < j /\ subscribers[i].path = subscribers[j].path) =>
            LET P == subscribers[i].path
                n == nextCalls[P] - subscribers[j].since
                k == Count(lastOp.emitted, P)
            IN /\ Len(subscribers[j].rcvd) = n
               /\ Len(subscribers[i].rcvd) >= n
               /\ LastN(subscribers[i].rcvd, n) = subscribers[j].rcvd
               /\ k <= n
               /\ LastN(subscribers[j].rcvd, k) = ValuesOn(lastOp.emitted, P)

\* both subscribers of one path hold the value a write delivered
C5_Witness ==
    /\ Len(subscribers) = 2
    /\ subscribers[1].path = subscribers[2].path
    /\ lastOp.kind = "set"
    /\ Count(lastOp.emitted, subscribers[1].path) = 1
    /\ subscribers[1].rcvd = <<lastOp.val>>
    /\ subscribers[2].rcvd = <<lastOp.val>>

C7_AssignedCompositesAreWrapped ==
    /\ \A q \in ReachPaths :
          LET v == Resolve(heap, root, q)
          IN IsPlainObject(heap, v) => v.t = "proxy"
    /\ lastOp.kind = "set" => lastOp.intercepted
    /\ (AppliedSet(lastOp) /\ lastOp.val.t = "prim") =>
          \A i \in 1..Len(lastOp.emitted) :
              lastOp.emitted[i].path = OpPath(lastOp)

(***************************************************************************)
(* C8.  Within one composite assignment the notifications of descendant    *)
(* paths are delivered before the notification of the assigned path.       *)
(* It does not hold of the code, which delivers in the chain's key order:  *)
(* the assigned property is the chain's first key (lines 45-47, 107).      *)
(***************************************************************************)
C8_DescendantsBeforeAssignedPath ==
    (AppliedSet(lastOp) /\ TypeofObject(lastOp.val)) =>
        \A i, j \in 1..Len(lastOp.emitted) :
            (/\ lastOp.emitted[j].path = OpPath(lastOp)
             /\ IsUnder(lastOp.emitted[i].path, OpPath(lastOp))) => i < j

(***************************************************************************)
(* C8, amended.  Within one composite assignment every path is notified    *)
(* before its own descendant paths: the assigned path P is delivered       *)
(* before every descendant D of P.                                         *)
(***************************************************************************)
C8_AssignedPathBeforeDescendants ==
    (AppliedSet(lastOp) /\ TypeofObject(lastOp.val)) =>
        \A i, j \in 1..Len(lastOp.emitted) :
            IsUnder(lastOp.emitted[j].path, lastOp.emitted[i].path) => i < j

\* root.a = {b: 2, c: 3} with "a" and "a.b" observed: "a" came first
C8_Witness ==
    /\ AppliedSet(lastOp) /\ IsPlainObject(heap, lastOp.val)
    /\ Len(lastOp.emitted) = 2
    /\ lastOp.emitted[1].path = OpPath(lastOp)
    /\ IsUnder(lastOp.emitted[2].path, OpPath(lastOp))

(***************************************************************************)
(* C9.  When an assigned composite replaces an old composite, every        *)
(* descendant path of the old one that the new value does not have gets    *)
(* the "removed" sentinel on its channel.                                  *)
(* It does not hold of the code: the chain is built from the new value     *)
(* alone (lines 45-47, 236-247), the old value is never read.              *)
(***************************************************************************)
C9_ReplacedDescendantsGetRemoved ==
    [][ LET node == Resolve(heap, root, lastOp'.node)
            old == Get(heap, node.id, lastOp'.key)
            new == lastOp'.val
            P == lastOp'.node \o <<lastOp'.key>>
        IN (/\ AppliedSet(lastOp')
            /\ IsPlainObject(heap', new)
            /\ IsPlainObject(heap, old)) =>
               \A d \in DescendantPaths(heap, old) \ DescendantPaths(heap', new) :
                   HasChannel(observedObjects, Join(P \o d)) =>
                       \E i \in 1..Len(lastOp'.emitted) :
                           lastOp'.emitted[i] = Entry(Join(P \o d), Undefined)
    ]_vars

(***************************************************************************)
(* C10.  Arrays are always leaves: no array is stored as a wrapped node    *)
(* and no notification is emitted on a path that holds an array index.     *)
(* It does not hold of the code: the set trap takes the composite branch   *)
(* for every value whose typeof is "object" (line 43), arrays included,    *)
(* unlike buildInitialProxyChain (line 214).                               *)
(***************************************************************************)
C10_ArraysAreLeaves ==
    /\ \A q \in ReachPaths :
          LET v == Resolve(heap, root, q)
          IN IsArrayValue(heap, v) => v.t = "ref"
    /\ \A i \in 1..Len(lastOp.emitted) :
          ~\E q \in KeySeqs :
              /\ \E n \in 1..Len(q) : q[n] = "0"
              /\ lastOp.emitted[i].path = Join(q)

\* nothing but the heap's new objects and lastOp differs after the step
OnlyReads ==
    /\ SameObjects
    /\ root' = root
    /\ observedObjects' = observedObjects
    /\ nSubjects' = nSubjects
    /\ subscribers' = subscribers
    /\ nextCalls' = nextCalls

(***************************************************************************)
(* C11.  snapshot() without a path returns a new object that holds exactly *)
(* the root's top-level keys with their current values, without the        *)
(* channel table or any other bookkeeping; no object of the tree, no       *)
(* channel and no subscription changes.                                    *)
(***************************************************************************)
C11_SnapshotIsCopyOfUserState ==
    [][ (lastOp'.kind = "snapshot" /\ lastOp'.node = <<>>) =>
          LET s == lastOp'.val
              this == heap[root.id]
          IN /\ s.t = "ref"
             /\ s.id \notin 1..Len(heap)
             /\ ~heap'[s.id].isArray
             /\ heap'[s.id].keys = this.keys
             /\ DOMAIN heap'[s.id].val = {this.keys[i] : i \in 1..Len(this.keys)}
             /\ \A k \in DOMAIN heap'[s.id].val : heap'[s.id].val[k] = this.val[k]
             /\ ObservedObjectsKey \notin DOMAIN heap'[s.id].val
             /\ lastOp'.debug = <<>>
             /\ OnlyReads
    ]_vars

\* snapshot() after root.a = 2, while "a" is observed: the copy holds a: 2
C11_Witness ==
    /\ lastOp.kind = "snapshot" /\ lastOp.node = <<>>
    /\ heap[lastOp.val.id].keys = <<"a">>
    /\ heap[lastOp.val.id].val["a"] = Prim(2)
    /\ HasChannel(observedObjects, "a")
    /\ nextCalls["a"] = 1

\* the first segment of a path at which the walk from the root fails
FailsAt(h, this, segments, i) ==
    LET v == Resolve(h, this, SubSeq(segments, 1, i - 1))
    IN ~IsPlainObject(h, v) \/ segments[i] \notin DOMAIN h[v.id].val

(***************************************************************************)
(* C12.  snapshot(path) returns undefined and changes nothing whenever the *)
(* walk over the path's segments meets a segment that is missing or a      *)
(* value that is not a plain composite, and the diagnostic names the first *)
(* segment that failed.                                                    *)
(* It does not hold of the code: an empty segment that fails is recorded   *)
(* as "", which line 173 takes for `nothing recorded yet`, so a later      *)
(* segment is named instead: snapshot("a..b") names "b".                   *)
(***************************************************************************)
C12_UnresolvedSnapshotNamesFirstFailure ==
    [][ (lastOp'.kind = "snapshot" /\ lastOp'.node # <<>>) =>
          LET segments == lastOp'.node
              failing == {i \in 1..Len(segments) :
                            /\ FailsAt(heap, root, segments, i)
                            /\ \A j \in 1..(i - 1) :
                                  ~FailsAt(heap, root, segments, j)}
          IN \A i \in failing :
                /\ lastOp'.val = Undefined
                /\ heap' = heap
                /\ OnlyReads
                /\ lastOp'.debug = << [path |-> Join(segments),
                                       key |-> segments[i]] >>
    ]_vars

(***************************************************************************)
(* C18.  For a path that resolves, snapshot(path) returns a primitive or   *)
(* an array as it is stored, and a composite as a new object with the same *)
(* keys and the same values (nested composites are the stored nodes        *)
(* themselves); the tree is read only.  Writing or deleting a top-level    *)
(* key of what it returned changes no other object and notifies nobody.    *)
(* It does not hold of the code: line 185 copies every value whose typeof  *)
(* is "object", so an array comes back as a new plain object.              *)
(***************************************************************************)
C18_SnapshotOfPathCopiesOneLevel ==
    [][ /\ (/\ lastOp'.kind = "snapshot"
            /\ lastOp'.node # <<>>
            /\ \A i \in 1..Len(lastOp'.node) :
                   ~FailsAt(heap, root, lastOp'.node, i)) =>
              LET stored == Resolve(heap, root, lastOp'.node)
                  s == lastOp'.val
              IN /\ OnlyReads
                 /\ IF IsPlainObject(heap, stored)
                    THEN /\ s.t = "ref"
                         /\ s.id \notin 1..Len(heap)
                         /\ heap'[s.id] = Obj(heap[stored.id].keys,
                                              heap[stored.id].val)
                    ELSE /\ s = stored
                         /\ heap' = heap
        /\ lastOp'.kind = "copy" =>
              /\ \A i \in 1..Len(heap) :
                    i # lastOp'.copy.id => heap'[i] = heap[i]
              /\ Len(heap') = Len(heap)
              /\ root' = root
              /\ lastOp'.emitted = <<>>
              /\ subscribers' = subscribers
              /\ nextCalls' = nextCalls
    ]_vars

(***************************************************************************)
(* C13.  unsubscribeAll(handles) closes exactly the given subscriptions    *)
(* and touches no channel.  From then on a closed subscription receives    *)
(* nothing, every open subscription still receives each value delivered on *)
(* its path, a channel once created stays the channel of its path, and a   *)
(* changed primitive written at an observed path reaches every open        *)
(* subscription of that path, old or new.                                  *)
(***************************************************************************)
C13_UnsubscribeAllCancelsOnlyTheGiven ==
    [][ /\ lastOp'.kind = "unsubscribeAll" =>
              /\ Len(subscribers') = Len(subscribers)
              /\ \A i \in 1..Len(subscribers) :
                    subscribers'[i] =
                       IF i \in lastOp'.handles
                       THEN [subscribers[i] EXCEPT !.active = FALSE]
                       ELSE subscribers[i]
              /\ observedObjects' = observedObjects
              /\ nSubjects' = nSubjects
              /\ nextCalls' = nextCalls
              /\ heap' = heap
        /\ \A p \in ObsPaths :
              HasChannel(observedObjects, p) =>
                 observedObjects'[p] = observedObjects[p]
        /\ \A i \in 1..Len(subscribers) :
              /\ ~subscribers[i].active =>
                    /\ subscribers'[i].rcvd = subscribers[i].rcvd
                    /\ ~subscribers'[i].active
              /\ (subscribers[i].active /\ lastOp'.kind = "set") =>
                    subscribers'[i].rcvd =
                       subscribers[i].rcvd \o
                          ValuesOn(lastOp'.emitted, subscribers[i].path)
        /\ (/\ AppliedSet(lastOp')
            /\ lastOp'.val.t = "prim"
            /\ Resolve(heap, root, lastOp'.node \o <<lastOp'.key>>) # lastOp'.val
            /\ HasChannel(observedObjects, OpPath(lastOp'))) =>
              /\ ValuesOn(lastOp'.emitted, OpPath(lastOp')) = <<lastOp'.val>>
              /\ nextCalls'[OpPath(lastOp')] = nextCalls[OpPath(lastOp')] + 1
    ]_vars

\* observe twice on one path, a write, the first subscription cancelled,
\* another write: the first subscriber holds the first value only, the
\* second holds both.
C13_Witness ==
    /\ Len(subscribers) = 2
    /\ subscribers[1].path = subscribers[2].path
    /\ ~subscribers[1].active /\ subscribers[2].active
    /\ Len(subscribers[1].rcvd) = 1
    /\ Len(subscribers[2].rcvd) = 2
    /\ lastOp.kind = "set"
    /\ subscribers[2].rcvd[2] = lastOp.val
    /\ nSubjects = 1

\* observe, cancel, observe again on the same path, then a write: the new
\* subscriber receives it on the channel made by the first observe
C13_WitnessNewObserver ==
    /\ Len(subscribers) = 2
    /\ subscribers[1].path = subscribers[2].path
    /\ ~subscribers[1].active /\ subscribers[2].active
    /\ subscribers[1].rcvd = <<>>
    /\ subscribers[2].since = 0
    /\ subscribers[2].rcvd = <<lastOp.val>>
    /\ lastOp.kind = "set"
    /\ nOps = 4
    /\ nSubjects = 1

\* the value at a place of the tree as the constructor built it
Constructed(path) ==
    LET c == Construct(FromHeap, 1) IN Resolve(c.heap, c.val, path)

(***************************************************************************)
(* C15.  On a node wrapped at construction and reached from the root by    *)
(* the keys k1 ... kn (n >= 0), a write at key k that takes effect and     *)
(* changes a leaf notifies the channel of "k1.....kn.k" once and no other  *)
(* channel.                                                                *)
(* It does not hold of the code for n >= 2: buildInitialProxyChain binds   *)
(* `...args, prop` behind a `set` that already carries the keys of the     *)
(* levels above (lines 215-217), so the node at a.b calls the root trap    *)
(* with args a, b, a and a write at its key c is notified on "a.b.a.c".    *)
(***************************************************************************)
C15_ConstructedNodeNotifiesFullPath ==
    [][ LET node == Resolve(heap, root, lastOp'.node)
        IN (/\ AppliedSet(lastOp')
            /\ lastOp'.val.t = "prim"
            /\ node.t = "proxy"
            /\ node = Constructed(lastOp'.node)
            /\ Get(heap, node.id, lastOp'.key) # lastOp'.val) =>
               \A p \in ObsPaths :
                   HasChannel(observedObjects, p) =>
                      Count(lastOp'.emitted, p) =
                         IF p = OpPath(lastOp') THEN 1 ELSE 0
    ]_vars

(***************************************************************************)
(* C16.  A composite assigned at key k on a nested node whose path from    *)
(* the root is Q is delivered on "Q.k" and its descendants on paths under  *)
(* "Q.k": every notification of the write goes to a path that starts with  *)
(* Q, none to "k" or to a path under "k".                                  *)
(* It does not hold of the code: the composite branch builds the chain     *)
(* from `prop` alone and never reads `args` (lines 45-47).                 *)
(***************************************************************************)
C16_NestedCompositeChainIsPrefixed ==
    (/\ AppliedSet(lastOp)
     /\ lastOp.intercepted
     /\ IsPlainObject(heap, lastOp.val)
     /\ lastOp.node # <<>>) =>
        /\ \A i \in 1..Len(lastOp.emitted) :
              \/ lastOp.emitted[i].path = OpPath(lastOp)
              \/ IsUnder(lastOp.emitted[i].path, OpPath(lastOp))
        /\ HasChannel(observedObjects, OpPath(lastOp)) =>
              ValuesOn(lastOp.emitted, OpPath(lastOp)) = <<lastOp.val>>

\* the places other than `path` where the object stored at `path` is stored
OtherPlaces(h, this, path) ==
    {q \in ReachPaths \ {path} :
        LET v == Resolve(h, this, q)
        IN TypeofObject(v) /\ v.id = Resolve(h, this, path).id}

(***************************************************************************)
(* C17.  When one composite is stored at two paths P1 and P2, a write that *)
(* takes effect and changes the leaf at its key k is notified on "P1.k"    *)
(* when it is made through P1 and on "P2.k" when it is made through P2,    *)
(* whatever writes came before.                                            *)
(* It does not hold of the code when a place lies on a node that was       *)
(* wrapped at construction two or more levels down: the Proxy stored for   *)
(* the composite inherits that node's piled-up args (C15), so a write      *)
(* through root.a.b.c is notified on "a.b.a.c.b".                          *)
(***************************************************************************)
C17_AliasedCompositeKeepsBothPrefixes ==
    [][ LET node == Resolve(heap, root, lastOp'.node)
        IN (/\ AppliedSet(lastOp')
            /\ lastOp'.val.t = "prim"
            /\ node.t = "proxy"
            /\ Get(heap, node.id, lastOp'.key) # lastOp'.val
            /\ OtherPlaces(heap, root, lastOp'.node) # {}
            /\ HasChannel(observedObjects, OpPath(lastOp'))) =>
               ValuesOn(lastOp'.emitted, OpPath(lastOp')) = <<lastOp'.val>>
    ]_vars

\* the smallest and the largest of a set of numbers
Min(S) == CHOOSE x \in S : \A y \in S : x <= y
Max(S) == CHOOSE x \in S : \A y \in S : y <= x

\* the notifications a chain gives rise to: its entries that have a channel
RECURSIVE WithChannel(_, _)
WithChannel(chain, obs) ==
    IF chain = <<>> THEN <<>>
    ELSE IF HasChannel(obs, Head(chain).path)
         THEN <<Head(chain)>> \o WithChannel(Tail(chain), obs)
         ELSE WithChannel(Tail(chain), obs)

\* the open subscriptions of a path's Subject, in subscription order
RECURSIVE OpenSubscriptions(_, _, _, _)
OpenSubscriptions(subs, obs, p, i) ==
    IF i > Len(subs) THEN <<>>
    ELSE IF subs[i].subj = obs[p] /\ subs[i].active
         THEN <<i>> \o OpenSubscriptions(subs, obs, p, i + 1)
         ELSE OpenSubscriptions(subs, obs, p, i + 1)

\* the log of a write whose subscribers may write
HasLog(op) == op.kind = "set" /\ "log" \in DOMAIN op

(***************************************************************************)
(* C14.  Delivery is synchronous and re-entrant.  In the log of an         *)
(* outermost write every trap call w is one block: it starts when w        *)
(* enters its delivery loop, ends when w returns, and holds nothing but    *)
(* what w does and the blocks of the writes made by callbacks inside it.   *)
(* Within its block w calls next for every entry of its chain that has a   *)
(* channel, in the chain's order, and every open subscription of that      *)
(* channel receives the value before w goes on.  A write made by a         *)
(* callback starts right after that callback received its value, so it is  *)
(* stored, notified and returned before the write that notified the        *)
(* callback delivers anything further or returns.                          *)
(***************************************************************************)
C14_NestedWriteCompletesBeforeOuterContinues ==
    HasLog(lastOp) =>
        LET L == lastOp.log
            Of(w) == {i \in 1..Len(L) : L[i].w = w}
        IN \A w \in {L[i].w : i \in 1..Len(L)} :
              LET first == Min(Of(w))
                  last == Max(Of(w))
                  nexts == {i \in Of(w) : L[i].e = "next"}
              IN /\ L[first].e = "enter"
                 /\ L[last].e = "return"
                 /\ Cardinality({i \in Of(w) : L[i].e = "enter"}) = 1
                 /\ Cardinality({i \in Of(w) : L[i].e = "return"}) = 1
                 /\ \A i \in first..last : L[i].w >= w
                 /\ [i \in 1..Cardinality(nexts) |->
                        LET n == CHOOSE n \in nexts :
                                   Cardinality({m \in nexts : m <= n}) = i
                        IN Entry(L[n].path, L[n].val)]
                      = WithChannel(L[first].chain, observedObjects)
                 /\ \A n \in nexts :
                       LET stop == Min({k \in Of(w) :
                                          k > n /\ L[k].e \in {"next", "return"}})
                           got == {k \in Of(w) : n < k /\ k < stop}
                       IN [i \in 1..Cardinality(got) |->
                              LET k == CHOOSE k \in got :
                                         Cardinality({m \in got : m <= k}) = i
                              IN L[k].sub]
                            = OpenSubscriptions(subscribers, observedObjects,
                                                L[n].path, 1)
                          /\ \A k \in got :
                                /\ L[k].e = "receive"
                                /\ L[k].path = L[n].path
                                /\ L[k].val = L[n].val
                 /\ w > 1 =>
                       /\ L[first - 1].e = "receive"
                       /\ HasCallback(subscribers[L[first - 1].sub])
                       /\ L[first - 1].w < w

\* a callback's write was stored, notified to a subscriber and returned, and
\* the outer write then delivered a notification it still had
C14_Witness ==
    /\ HasLog(lastOp)
    /\ \E i, j, k, l \in 1..Len(lastOp.log) :
          /\ i < j /\ j < k /\ k < l
          /\ lastOp.log[i].e = "enter" /\ lastOp.log[i].w = 2
          /\ lastOp.log[j].e = "receive" /\ lastOp.log[j].w = 2
          /\ lastOp.log[k].e = "return" /\ lastOp.log[k].w = 2
          /\ lastOp.log[l].e = "receive" /\ lastOp.log[l].w = 1

\* the key sequence a dotted path names
KeysOf(p) == CHOOSE q \in KeySeqs : Join(q) = p

\* a delivered value is the stored one: an object is stored behind a Proxy
SameStored(delivered, stored) ==
    IF TypeofObject(delivered)
    THEN TypeofObject(stored) /\ stored.id = delivered.id
    ELSE stored = delivered

(***************************************************************************)
(* C20.  Once an outermost write has returned, for every path whose        *)
(* channel was notified during it, the value notified last on that path is *)
(* the value stored at that path, also when callbacks wrote to the tree    *)
(* meanwhile.                                                              *)
(* It does not hold of the code: the values of a chain are read before the *)
(* first notification (lines 45-47) and each next() hands one value to all *)
(* subscribers in turn, so what a callback wrote meanwhile is followed by  *)
(* the older value of the write that was being delivered.                  *)
(***************************************************************************)
C20_LastDeliveredIsStored ==
    HasLog(lastOp) =>
        \A p \in ChannelPaths :
            LET got == {i \in 1..Len(lastOp.log) :
                          lastOp.log[i].e = "receive" /\ lastOp.log[i].path = p}
            IN got # {} =>
                  SameStored(lastOp.log[Max(got)].val,
                             Resolve(heap, root, KeysOf(p)))

(***************************************************************************)
(* C19.  Assigning a composite, cyclic or not, to a property comes to an   *)
(* end without a fault, and the pass that builds the notification chain is *)
(* called on each composite at most once.                                  *)
(* It does not hold of the code: buildNotificationChain keeps no set of    *)
(* visited objects (lines 236-247), so on V = {b: 2}, V.c = V it is called *)
(* on V again and again until the stack is exhausted.                      *)
(***************************************************************************)
C19_ChainPassVisitsEachCompositeOnce ==
    (lastOp.kind = "set" /\ lastOp.intercepted /\ TypeofObject(lastOp.val)) =>
        LET r == ChainCalls(heap, lastOp.val, 1)
        IN /\ "threw" \notin DOMAIN lastOp
           /\ ~r.overflow
           /\ \A i, j \in 1..Len(r.visited) :
                 i # j => r.visited[i] # r.visited[j]

====
